---- MODULE Spec2Model ----
(***************************************************************************)
(* Process lifecycle and request middleware of the go_web_app scaffold:    *)
(* main.go (startup, background listener, signal wait, graceful shutdown,  *)
(* deferred releases) and logger.go (GinLogger, GinRecovery).              *)
(***************************************************************************)
EXTENDS Integers, Sequences, FiniteSets, Bags, TLC

\* ---------------------------------------------------------------- bounds
\* Number of connections the listener is offered.
MaxRequests == 2
\* Number of Init and Close calls a caller of the store and cache packages
\* makes.
MaxCalls == 3

\* -------------------------------------------------------- program constants
\* context.WithTimeout(context.Background(), 5*time.Second)
ShutdownTimeout == 5
\* http.StatusInternalServerError
StatusInternalServerError == 500

\* statuses a handler leaves in the response writer: 200 (the writer's
\* default) or one it sets itself
HandlerStatuses == {200, 404}
Signals == {"SIGINT", "SIGTERM"}

\* ------------------------------------------------------------ fault values
\* A recovered panic value: its dynamic type, for a *net.OpError the dynamic
\* type of its Err field, and for an *os.SyscallError the Syscall name and
\* the text of the wrapped error.  Texts are sequences of characters.
Upper == <<"A","B","C","D","E","F","G","H","I","J","K","L","M",
           "N","O","P","Q","R","S","T","U","V","W","X","Y","Z">>
Lower == <<"a","b","c","d","e","f","g","h","i","j","k","l","m",
           "n","o","p","q","r","s","t","u","v","w","x","y","z">>

\* strings.ToLower on one character
LowerChar(ch) ==
    IF \E i \in 1..Len(Upper) : Upper[i] = ch
    THEN Lower[CHOOSE i \in 1..Len(Upper) : Upper[i] = ch]
    ELSE ch

\* strings.ToLower
ToLower(s) == [i \in 1..Len(s) |-> LowerChar(s[i])]

UpperChar(ch) ==
    IF \E i \in 1..Len(Lower) : Lower[i] = ch
    THEN Upper[CHOOSE i \in 1..Len(Lower) : Lower[i] = ch]
    ELSE ch

ToUpper(s) == [i \in 1..Len(s) |-> UpperChar(s[i])]

\* A match at the start of the text only.
HasPrefix(s, sub) ==
    Len(sub) <= Len(s) /\ \A j \in 1..Len(sub) : s[j] = sub[j]

\* strings.Contains
Contains(s, sub) ==
    \E i \in 0..(Len(s) - Len(sub)) :
        \A j \in 1..Len(sub) : s[i + j] = sub[j]

BrokenPipeText == <<"b","r","o","k","e","n"," ","p","i","p","e">>
ConnResetText ==
    <<"c","o","n","n","e","c","t","i","o","n"," ","r","e","s","e","t",
      " ","b","y"," ","p","e","e","r">>

\* (*os.SyscallError).Error(): Syscall + ": " + Err.Error()
SyscallErrorText(f) == f.syscall \o <<":", " ">> \o f.msg

NoFault == [type |-> "none", inner |-> "none", syscall |-> <<>>, msg |-> <<>>]

\* write: Broken pipe, surfaced as *net.OpError{Err: *os.SyscallError}
FaultBrokenPipe ==
    [type |-> "OpError", inner |-> "SyscallError",
     syscall |-> <<"w","r","i","t","e">>,
     msg |-> <<"B","r","o","k","e","n"," ","p","i","p","e">>]

\* panic("broken pipe"): a value that is not an error
FaultString ==
    [type |-> "string", inner |-> "none", syscall |-> <<>>,
     msg |-> <<"b","r","o","k","e","n"," ","p","i","p","e">>]

HandlerFaults == {FaultBrokenPipe, FaultString}

\* error texts a recovered value may carry
FaultTexts ==
    {BrokenPipeText, FaultBrokenPipe.msg, ConnResetText, ToUpper(ConnResetText),
     SubSeq(ConnResetText, 1, 16), SubSeq(BrokenPipeText, 1, 6),
     <<"b","r","o","k","e","n","p","i","p","e">>, <<"E","O","F">>}

SyscallNames == {<<"w","r","i","t","e">>, <<"r","e","a","d">>}

\* values recover() may return: a *net.OpError around an *os.SyscallError,
\* a *net.OpError around another error, an *os.SyscallError on its own,
\* another error, a string
FaultValues ==
    {[type |-> "OpError", inner |-> "SyscallError", syscall |-> n, msg |-> t] :
        n \in SyscallNames, t \in FaultTexts}
    \cup {[type |-> "OpError", inner |-> "errorString", syscall |-> <<>>, msg |-> t] :
        t \in FaultTexts}
    \cup {[type |-> "SyscallError", inner |-> "none", syscall |-> n, msg |-> t] :
        n \in SyscallNames, t \in FaultTexts}
    \cup {[type |-> k, inner |-> "none", syscall |-> <<>>, msg |-> t] :
        k \in {"error", "string"}, t \in FaultTexts}

\* GinRecovery's classification of the recovered value
BrokenPipe(f) ==
    /\ f.type = "OpError"
    /\ f.inner = "SyscallError"
    /\ \/ Contains(ToLower(SyscallErrorText(f)), BrokenPipeText)
       \/ Contains(ToLower(SyscallErrorText(f)), ConnResetText)

\* ------------------------------------------------------------- log level
\* the level names zapcore.Level's text form knows
LevelNames ==
    {<<"d","e","b","u","g">>, <<"i","n","f","o">>, <<"w","a","r","n">>,
     <<"e","r","r","o","r">>, <<"d","p","a","n","i","c">>,
     <<"p","a","n","i","c">>, <<"f","a","t","a","l">>}

\* one attempt of zapcore: a name in lower case or in upper case, or the
\* empty text (the zero value, info)
RecognizedLevel(text) ==
    \/ text = <<>>
    \/ text \in LevelNames
    \/ text \in {ToUpper(n) : n \in LevelNames}

\* A parser that takes any text for a level.
UnmarshalAnyText(text) == TRUE

\* l.UnmarshalText([]byte(viper.GetString("log.level"))): the text as it is,
\* then in lower case; TRUE when the error is nil
UnmarshalText(text) ==
    RecognizedLevel(text) \/ RecognizedLevel(ToLower(text))

\* values of log.level in the configuration file
LogLevels ==
    {<<"I","n","f","o">>, <<"i","n","f">>, <<"v","e","r","b","o","s","e">>}

\* ------------------------------------------------------------------ state
VARIABLES
    pc,         \* position of the foreground path (func main)
    state,      \* lifecycle: Initializing, Serving, Draining, Terminated
    visited,    \* the lifecycle states entered so far, in order
    exitCode,   \* -1 while the process runs, then its exit status
    inits,      \* the initializers run so far, in order
    defers,     \* main's stack of deferred calls, last pushed last
    logger,     \* process-wide zap logger: "noop" or "installed"
    db,         \* mysql.db: "nil", "open", "closed"
    rdb,        \* redis.rdb: "nil", "unconnected", "open", "closed"
    released,   \* release calls made so far, in order
    freed,      \* how often the pool behind each current handle was freed
    logLevel,   \* the configured log.level text
    out,        \* what the foreground and listener paths printed or logged
    quit,       \* the buffered signal channel (capacity 1)
    gpc,        \* position of the background listener goroutine
    lst,        \* the listening socket: "none", "open", "closed"
    inShutdown, \* http.Server's shutting-down flag
    clock,      \* time units elapsed since the shutdown context was created
    ctxErr,     \* the shutdown context expired before shutdown completed
    acceptedIn, \* lifecycle states in which a connection was accepted
    req         \* the accepted requests: a bag of gin contexts, each with
                \* the records emitted for it

mainVars == <<pc, state, visited, exitCode, inits, defers, logger, db, rdb,
              released, freed, logLevel, out>>
srvVars == <<quit, gpc, lst, inShutdown, clock, ctxErr>>
reqVars == <<acceptedIn, req>>
vars == <<pc, state, visited, exitCode, inits, defers, logger, db, rdb,
          released, freed, logLevel, out, quit, gpc, lst, inShutdown, clock, ctxErr,
          acceptedIn, req>>

\* the gin context of a request that enters the chain: status 200, nothing
\* written (wire is the status line sent, 0 for none), no error, and no
\* record emitted for it yet; hstatus and hwrote note what the handler did
NewContext ==
    [phase |-> "handler", status |-> 200, written |-> FALSE, wire |-> 0,
     hstatus |-> 0, hwrote |-> FALSE, fault |-> NoFault, errors |-> 0, aborted |-> FALSE,
     errorLogs |-> 0, telemetry |-> 0, telStatus |-> 0, telErrors |-> 0,
     outcome |-> "none"]

Init ==
    /\ pc = "settings"
    /\ state = "Initializing"
    /\ visited = <<"Initializing">>
    /\ exitCode = -1
    /\ inits = <<>>
    /\ defers = <<>>
    /\ logger = "noop"
    /\ db = "nil"
    /\ rdb = "nil"
    /\ released = <<>>
    /\ freed = [store |-> 0, cache |-> 0]
    /\ logLevel \in LogLevels
    /\ out = <<>>
    /\ quit = <<>>
    /\ gpc = "none"
    /\ lst = "none"
    /\ inShutdown = FALSE
    /\ clock = 0
    /\ ctxErr = FALSE
    /\ acceptedIn = {}
    /\ req = EmptyBag

Alive == exitCode = -1

Contexts == BagToSet(req)

\* requests the server is still working on
InFlight == {c \in Contexts : c.phase # "done"}

\* the bag with one copy of context c replaced by d
Replace(c, d) == (req (-) SetToBag({c})) (+) SetToBag({d})

\* ---------------------------------------------------------- defer, return
\* An initializer whose error is ignored: startup carries on.
AfterInitIgnoringError(ok, next) == next

\* if err := X.Init(); err != nil { ...; return }
AfterInit(ok, next) == IF ok THEN next ELSE "returning"

\* A defer statement that registers nothing.
PushNothing(stk, call) == stk

\* defer call(): pushed on the function's stack of deferred calls
Push(stk, call) == Append(stk, call)

\* Deferred calls run first-registered first.
FirstPushed(stk) == 1

\* on return, deferred calls run last-registered first
NextDeferred(stk) == Len(stk)

Remove(stk, i) == SubSeq(stk, 1, i - 1) \o SubSeq(stk, i + 1, Len(stk))

\* db, err = sqlx.Connect(...): the handle is nil when it fails
MysqlConnect(ok) == IF ok THEN "open" ELSE "nil"

\* rdb = redis.NewClient(...); rdb.Ping(ctx): the client and its pool exist
\* whether or not the ping succeeds
RedisConnect(ok) == IF ok THEN "open" ELSE "unconnected"

\* what the runtime prints when a method is promoted through a nil pointer
NilDereference == "panic: invalid memory address or nil pointer dereference"

\* mysql.Close: _ = db.Close().  db is a nil *sqlx.DB until sqlx.Connect has
\* succeeded, and Close is promoted from the embedded *sql.DB, so the call
\* dereferences db; on a handle it frees the pool once and is a no-op when
\* the handle is closed already.  h is the handle after the call, freed
\* whether the call freed the pool.
MysqlClose(h) ==
    [h |-> IF h = "open" THEN "closed" ELSE h,
     freed |-> h = "open",
     panic |-> h = "nil"]

\* redis.Close: _ = rdb.Close().  rdb is a nil *redis.Client until Init has
\* run, and Close is promoted from the embedded *baseClient; on a closed
\* client it returns an error, which is dropped.
RedisClose(h) ==
    [h |-> IF h \in {"open", "unconnected"} THEN "closed" ELSE h,
     freed |-> h \in {"open", "unconnected"},
     panic |-> h = "nil"]

\* A receive that does not block on an empty channel.
ChanRecvNonBlocking(q) ==
    [ok |-> TRUE, rest |-> IF Len(q) > 0 THEN Tail(q) ELSE q]

\* <-quit: blocks until the channel holds a value, and takes the first
ChanRecv(q) ==
    [ok |-> Len(q) > 0, rest |-> IF Len(q) > 0 THEN Tail(q) ELSE q]

\* zap's Error level: the record is written and the caller carries on.
ZapError(msg) == [msg |-> msg, exit |-> FALSE]

\* zap.L().Fatal: the record is written, then os.Exit(1)
ZapFatal(msg) == [msg |-> msg, exit |-> TRUE]

\* The process ends with the given status: every goroutine stops where it
\* is, and the request contexts and the signal channel are gone with it.
\* Deferred calls that have not run never run.
ProcessExit(code) ==
    /\ pc' = "exited"
    /\ exitCode' = code
    /\ state' = "Terminated"
    /\ visited' = Append(visited, "Terminated")
    /\ gpc' = "exited"
    /\ quit' = <<>>
    /\ req' = EmptyBag

\* ------------------------------------------------------- foreground path
\* 1. settings.Init()
SettingsInit ==
    /\ Alive /\ pc = "settings"
    /\ inits' = Append(inits, "settings")
    /\ \E ok \in BOOLEAN :
         /\ pc' = AfterInit(ok, "logger")
         /\ out' = IF ok THEN out
                   ELSE out \o <<"viper.ReadInConfig failed", "init settings failed">>
    /\ UNCHANGED <<state, visited, exitCode, defers, logger, db, rdb, released>>
    /\ UNCHANGED <<freed, logLevel>>
    /\ UNCHANGED srvVars /\ UNCHANGED reqVars

\* 2. logger.Init(); defer zap.L().Sync()
LoggerInit ==
    /\ Alive /\ pc = "logger"
    /\ inits' = Append(inits, "logger")
    /\ LET ok == UnmarshalText(logLevel) IN
         /\ pc' = AfterInit(ok, "mysql")
         /\ logger' = IF ok THEN "installed" ELSE logger
         /\ defers' = IF ok THEN Push(defers, "Sync") ELSE defers
         /\ out' = IF ok THEN Append(out, "logger initialized successfully")
                   ELSE Append(out, "init logger failed")
    /\ UNCHANGED <<state, visited, exitCode, db, rdb, released, freed, logLevel>>
    /\ UNCHANGED srvVars /\ UNCHANGED reqVars

\* 3. mysql.Init(); defer mysql.Close()
MysqlInit ==
    /\ Alive /\ pc = "mysql"
    /\ inits' = Append(inits, "mysql")
    /\ \E ok \in BOOLEAN :
         /\ pc' = AfterInit(ok, "redis")
         /\ db' = MysqlConnect(ok)
         /\ defers' = IF ok THEN Push(defers, "mysql.Close") ELSE defers
         /\ out' = IF ok THEN out
                   ELSE out \o <<"connect DB failed", "init mysql failed">>
    /\ freed' = [freed EXCEPT !.store = 0]
    /\ UNCHANGED <<state, visited, exitCode, logger, rdb, released, logLevel>>
    /\ UNCHANGED srvVars /\ UNCHANGED reqVars

\* 4. redis.Init(); defer redis.Close()
RedisInit ==
    /\ Alive /\ pc = "redis"
    /\ inits' = Append(inits, "redis")
    /\ \E ok \in BOOLEAN :
         /\ pc' = AfterInit(ok, "routes")
         /\ rdb' = RedisConnect(ok)
         /\ defers' = IF ok THEN Push(defers, "redis.Close") ELSE defers
         /\ out' = IF ok THEN out ELSE Append(out, "init redis failed")
    /\ freed' = [freed EXCEPT !.cache = 0]
    /\ UNCHANGED <<state, visited, exitCode, logger, db, released, logLevel>>
    /\ UNCHANGED srvVars /\ UNCHANGED reqVars

\* 5. routes.Setup() and the http.Server value: no error to return
RoutesSetup ==
    /\ Alive /\ pc = "routes"
    /\ inits' = Append(inits, "routes")
    /\ pc' = "serve"
    /\ UNCHANGED <<state, visited, exitCode, defers, logger, db, rdb, released, out>>
    /\ UNCHANGED <<freed, logLevel>>
    /\ UNCHANGED srvVars /\ UNCHANGED reqVars

\* 6. go func() { srv.ListenAndServe() ... }(); quit := make(chan os.Signal, 1);
\*    signal.Notify(quit, SIGINT, SIGTERM)
StartServe ==
    /\ Alive /\ pc = "serve"
    /\ pc' = "wait"
    /\ state' = "Serving"
    /\ visited' = Append(visited, "Serving")
    /\ gpc' = "start"
    /\ UNCHANGED <<exitCode, inits, defers, logger, db, rdb, released, out>>
    /\ UNCHANGED <<freed, logLevel>>
    /\ UNCHANGED <<quit, lst, inShutdown, clock, ctxErr>>
    /\ UNCHANGED reqVars

\* The operating system delivers SIGINT or SIGTERM while main blocks on
\* <-quit; package signal forwards it to quit without blocking, so it is
\* dropped when the buffer is full.  (A signal that arrives after main has
\* received one only fills a buffer nobody reads again.)
Signal ==
    /\ Alive /\ pc = "wait"
    /\ \E sig \in Signals :
         quit' = IF Len(quit) < 1 THEN Append(quit, sig) ELSE quit
    /\ UNCHANGED mainVars
    /\ UNCHANGED <<gpc, lst, inShutdown, clock, ctxErr>>
    /\ UNCHANGED reqVars

\* <-quit; zap.L().Info("Shutdown Server ...")
ReceiveQuit ==
    /\ Alive /\ pc = "wait"
    /\ ChanRecv(quit).ok
    /\ quit' = ChanRecv(quit).rest
    /\ state' = "Draining"
    /\ visited' = Append(visited, "Draining")
    /\ out' = Append(out, "Shutdown Server ...")
    /\ pc' = "shutdown"
    /\ UNCHANGED <<exitCode, inits, defers, logger, db, rdb, released>>
    /\ UNCHANGED <<freed, logLevel>>
    /\ UNCHANGED <<gpc, lst, inShutdown, clock, ctxErr>>
    /\ UNCHANGED reqVars

\* ctx, cancel := context.WithTimeout(..., 5*time.Second); defer cancel();
\* srv.Shutdown(ctx) begins: the server is marked shutting down and its
\* listeners are closed
CallShutdown ==
    /\ Alive /\ pc = "shutdown"
    /\ defers' = Push(defers, "cancel")
    /\ clock' = 0
    /\ inShutdown' = TRUE
    /\ lst' = IF lst = "open" THEN "closed" ELSE lst
    /\ pc' = "shutdown_wait"
    /\ UNCHANGED <<state, visited, exitCode, inits, logger, db, rdb, released, out>>
    /\ UNCHANGED <<freed, logLevel>>
    /\ UNCHANGED <<quit, gpc, ctxErr>>
    /\ UNCHANGED reqVars

\* A context that never expires.
NoDeadline(t) == FALSE

\* ctx.Done(): the context made at time 0 has expired at time t
DeadlineExceeded(t) == t >= ShutdownTimeout

\* Time passes while Shutdown waits for connections that are not idle (it
\* polls them more often than once per time unit); at the deadline the
\* context expires, and Shutdown fails when they are not all idle by then.
Tick ==
    /\ Alive /\ pc = "shutdown_wait"
    /\ clock < ShutdownTimeout /\ InFlight # {}
    /\ clock' = clock + 1
    /\ ctxErr' = (DeadlineExceeded(clock') /\ InFlight # {})
    /\ UNCHANGED mainVars
    /\ UNCHANGED <<quit, gpc, lst, inShutdown>>
    /\ UNCHANGED reqVars

\* srv.Shutdown(ctx) returns nil: every connection is idle;
\* zap.L().Info("Server exiting") and main returns
ShutdownReturns ==
    /\ Alive /\ pc = "shutdown_wait"
    /\ ~ctxErr /\ InFlight = {}
    /\ out' = Append(out, "Server exiting")
    /\ pc' = "returning"
    /\ UNCHANGED <<state, visited, exitCode, inits, defers, logger, db, rdb, released>>
    /\ UNCHANGED <<freed, logLevel>>
    /\ UNCHANGED srvVars /\ UNCHANGED reqVars

\* srv.Shutdown(ctx) returns the context's error:
\* zap.L().Fatal("Server Shutdown", zap.Error(err))
ShutdownFails ==
    /\ Alive /\ pc = "shutdown_wait"
    /\ ctxErr
    /\ LET rec == ZapFatal("Server Shutdown") IN
         IF rec.exit
         THEN /\ out' = Append(out, rec.msg)
              /\ ProcessExit(1)
         ELSE /\ out' = out \o <<rec.msg, "Server exiting">>
              /\ pc' = "returning"
              /\ UNCHANGED <<exitCode, state, visited, gpc, quit, req>>
    /\ UNCHANGED <<inits, defers, logger, db, rdb, released, freed, logLevel>>
    /\ UNCHANGED <<lst, inShutdown, clock, ctxErr, acceptedIn>>

\* main returns: the deferred calls run one at a time; a deferred call that
\* panics does not stop the ones registered before it
RunDeferred ==
    /\ Alive /\ pc = "returning"
    /\ defers # <<>>
    /\ LET i == NextDeferred(defers)
           call == defers[i]
           r == CASE call = "redis.Close" -> RedisClose(rdb)
                  [] call = "mysql.Close" -> MysqlClose(db)
                  [] OTHER -> [h |-> "none", freed |-> FALSE, panic |-> FALSE] IN
         /\ defers' = Remove(defers, i)
         /\ rdb' = IF call = "redis.Close" THEN r.h ELSE rdb
         /\ db' = IF call = "mysql.Close" THEN r.h ELSE db
         /\ freed' =
              CASE call = "redis.Close" /\ r.freed -> [freed EXCEPT !.cache = @ + 1]
                [] call = "mysql.Close" /\ r.freed -> [freed EXCEPT !.store = @ + 1]
                [] OTHER -> freed
         /\ released' =
              CASE call = "redis.Close" -> Append(released, "cache")
                [] call = "mysql.Close" -> Append(released, "store")
                [] call = "Sync" -> Append(released, "logger")
                [] OTHER -> released
         /\ out' = IF r.panic THEN Append(out, NilDereference) ELSE out
    /\ UNCHANGED <<pc, state, visited, exitCode, inits, logger, logLevel>>
    /\ UNCHANGED srvVars /\ UNCHANGED reqVars

\* main has returned and no deferred call is left: the process exits 0, or
\* 2 when a deferred call panicked
Exit ==
    /\ Alive /\ pc = "returning"
    /\ defers = <<>>
    /\ ProcessExit(IF \E i \in 1..Len(out) : out[i] = NilDereference THEN 2 ELSE 0)
    /\ UNCHANGED <<inits, defers, logger, db, rdb, released, freed, logLevel, out>>
    /\ UNCHANGED <<lst, inShutdown, clock, ctxErr, acceptedIn>>

\* ------------------------------------------------------ listener goroutine
\* srv.ListenAndServe(): ErrServerClosed when the server is already shutting
\* down, else it binds the address (which may fail) and serves
ListenAndServe ==
    /\ Alive /\ gpc = "start"
    /\ IF inShutdown
       THEN /\ gpc' = "ErrServerClosed"
            /\ lst' = lst
       ELSE \E ok \in BOOLEAN :
              /\ gpc' = IF ok THEN "serving" ELSE "err"
              /\ lst' = IF ok THEN "open" ELSE lst
    /\ UNCHANGED mainVars
    /\ UNCHANGED <<quit, inShutdown, clock, ctxErr>>
    /\ UNCHANGED reqVars

\* Serve's accept loop ends: with ErrServerClosed once Shutdown was called,
\* with the accept error otherwise
ServeReturns ==
    /\ Alive /\ gpc = "serving"
    /\ gpc' = IF inShutdown THEN "ErrServerClosed" ELSE "err"
    /\ lst' = "closed"
    /\ UNCHANGED mainVars
    /\ UNCHANGED <<quit, inShutdown, clock, ctxErr>>
    /\ UNCHANGED reqVars

\* log.Printf: the record is written and the goroutine carries on.
LogPrintf(msg) == [msg |-> msg, exit |-> FALSE]

\* log.Fatalf: the record is written, then os.Exit(1)
LogFatalf(msg) == [msg |-> msg, exit |-> TRUE]

\* Every error the listener returns is fatal.
ListenFatalOnAnyError(err) == err # "nil"

\* err != nil && err != http.ErrServerClosed
ListenFatal(err) == err # "nil" /\ err # "ErrServerClosed"

\* if err != nil && err != http.ErrServerClosed { log.Fatalf("listen: ...") }
ListenerExit ==
    /\ Alive /\ gpc \in {"ErrServerClosed", "err"}
    /\ IF ListenFatal(gpc)
       THEN LET rec == LogFatalf("listen:") IN
              /\ out' = Append(out, rec.msg)
              /\ IF rec.exit
                 THEN ProcessExit(1)
                 ELSE /\ gpc' = "done"
                      /\ UNCHANGED <<pc, exitCode, state, visited, quit, req>>
       ELSE /\ gpc' = "done"
            /\ UNCHANGED <<out, pc, exitCode, state, visited, quit, req>>
    /\ UNCHANGED <<inits, defers, logger, db, rdb, released, freed, logLevel>>
    /\ UNCHANGED <<lst, inShutdown, clock, ctxErr, acceptedIn>>

\* ------------------------------------------------- gin response and context
\* (*responseWriter).WriteHeader: records the status to send.  Once the
\* header is written the status on the wire cannot change any more; whether
\* the recorded status is still overwritten then depends on the gin release,
\* so both results are possible.
WriteHeader(c, code) ==
    IF code > 0 /\ c.status # code
    THEN IF c.written
         THEN {c, [c EXCEPT !.status = code]}
         ELSE {[c EXCEPT !.status = code]}
    ELSE {c}

\* (*responseWriter).WriteHeaderNow: sends the status line once
WriteHeaderNow(c) ==
    IF c.written THEN c
    ELSE [c EXCEPT !.written = TRUE, !.wire = c.status]

\* c.Abort()
Abort(c) == [c EXCEPT !.aborted = TRUE]

\* An abort that never touches the response.
AbortWithoutStatus(c, code) == {Abort(c)}

\* c.AbortWithStatus(code): c.Status(code); c.Writer.WriteHeaderNow(); c.Abort()
AbortWithStatus(c, code) ==
    {Abort(WriteHeaderNow(d)) : d \in WriteHeader(c, code)}

\* An error that is dropped instead of recorded.
ErrorNotAppended(c) == c

\* c.Error(err): appended to c.Errors with type ErrorTypePrivate
Error(c) == [c EXCEPT !.errors = @ + 1]

\* zap.L().Error(...) called for this request
LogError(c) == [c EXCEPT !.errorLogs = @ + 1]

\* err.(error): the type assertion holds for error values only
IsError(f) == f.type \in {"OpError", "SyscallError", "error"}

\* A recovery that logs the fault and panics again.
RecoverRepanic(c, stack) ==
    {[LogError(c) EXCEPT !.phase = "done", !.outcome = "escaped"]}

\* GinRecovery's deferred function, run with the recovered value c.fault
Recover(c, stack) ==
    IF BrokenPipe(c.fault)
    THEN IF IsError(c.fault)
         THEN {[Abort(Error(LogError(c))) EXCEPT
                    !.phase = "logging", !.outcome = "benign-abort"]}
         ELSE {[LogError(c) EXCEPT !.phase = "done", !.outcome = "escaped"]}
    ELSE {[d EXCEPT !.phase = "logging", !.outcome = "5xx-abort"] :
            d \in AbortWithStatus(
                    IF stack THEN LogError(c) ELSE LogError(c),
                    StatusInternalServerError)}

\* A telemetry record that reports the status seen before c.Next().
TelemetryBeforeNext(c) ==
    [c EXCEPT !.telemetry = @ + 1, !.telStatus = 200, !.telErrors = 0,
              !.phase = "sent"]

\* GinLogger after c.Next(): one Info record with c.Writer.Status() and
\* c.Errors.ByType(gin.ErrorTypePrivate)
Telemetry(c) ==
    [c EXCEPT !.telemetry = @ + 1, !.telStatus = c.status,
              !.telErrors = c.errors, !.phase = "sent"]

\* The listener takes connections whatever its state.
AcceptAlways == TRUE

\* the accept loop takes a connection only from an open listener
CanAccept == lst = "open"

\* --------------------------------------------------------------- requests
\* A connection is accepted and its request enters the chain:
\* GinLogger (start, path, query; c.Next()), GinRecovery (defer; c.Next())
Accept ==
    /\ Alive /\ CanAccept
    /\ BagCardinality(req) < MaxRequests
    /\ req' = req (+) SetToBag({NewContext})
    /\ acceptedIn' = acceptedIn \cup {state}
    /\ UNCHANGED mainVars /\ UNCHANGED srvVars

\* context c after a handler that set status s, had sent the header or not
\* (w), and returned (NoFault) or panicked with f
HandlerResult(c, s, w, f) ==
    LET c1 == [c EXCEPT !.status = s, !.hstatus = s, !.hwrote = w]
        c2 == IF w THEN WriteHeaderNow(c1) ELSE c1 IN
      IF f = NoFault
      THEN [c2 EXCEPT !.phase = "logging"]
      ELSE [c2 EXCEPT !.phase = "panicking", !.fault = f]

\* The route handler runs: it leaves a status, may have started the
\* response, and returns or panics with a fault value
Handler ==
    /\ Alive
    /\ \E c \in Contexts :
         /\ c.phase = "handler"
         /\ \E s \in HandlerStatuses, w \in BOOLEAN,
               f \in HandlerFaults \cup {NoFault} :
                req' = Replace(c, HandlerResult(c, s, w, f))
    /\ UNCHANGED acceptedIn
    /\ UNCHANGED mainVars /\ UNCHANGED srvVars

\* GinRecovery: recover() in the deferred function.  A panic raised inside
\* it unwinds past GinLogger to net/http's per-connection recover, which
\* closes the connection.
GinRecovery ==
    /\ Alive
    /\ \E c \in Contexts :
         /\ c.phase = "panicking"
         /\ \E stack \in BOOLEAN :
              \E d \in Recover(c, stack) : req' = Replace(c, d)
    /\ UNCHANGED acceptedIn
    /\ UNCHANGED mainVars /\ UNCHANGED srvVars

\* GinLogger resumes after c.Next() returned and emits its record; the
\* chain is over, gin writes the header if nobody did, and the connection
\* goes idle
GinLogger ==
    /\ Alive
    /\ \E c \in Contexts :
         /\ c.phase = "logging"
         /\ req' = Replace(c, [WriteHeaderNow(Telemetry(c)) EXCEPT !.phase = "done"])
    /\ UNCHANGED acceptedIn
    /\ UNCHANGED mainVars /\ UNCHANGED srvVars

\* ----------------------------------------- store and cache packages alone
\* Init and Close of package mysql and of package redis are exported: a
\* caller may invoke them in any order.  A panic nobody recovers ends the
\* process with status 2.
Calls == Len(inits) + Len(released)

\* mysql.Init() called on its own
CallMysqlInit ==
    /\ Alive /\ Calls < MaxCalls
    /\ inits' = Append(inits, "mysql")
    /\ \E ok \in BOOLEAN :
         /\ db' = MysqlConnect(ok)
         /\ out' = IF ok THEN out ELSE Append(out, "connect DB failed")
    /\ freed' = [freed EXCEPT !.store = 0]
    /\ UNCHANGED <<pc, state, visited, exitCode, defers, logger, rdb, released, logLevel>>
    /\ UNCHANGED srvVars /\ UNCHANGED reqVars

\* redis.Init() called on its own
CallRedisInit ==
    /\ Alive /\ Calls < MaxCalls
    /\ inits' = Append(inits, "redis")
    /\ \E ok \in BOOLEAN : rdb' = RedisConnect(ok)
    /\ freed' = [freed EXCEPT !.cache = 0]
    /\ UNCHANGED <<pc, state, visited, exitCode, defers, logger, db, released, logLevel, out>>
    /\ UNCHANGED srvVars /\ UNCHANGED reqVars

\* mysql.Close() called on its own
CallMysqlClose ==
    /\ Alive /\ Calls < MaxCalls
    /\ released' = Append(released, "store")
    /\ LET r == MysqlClose(db) IN
         /\ db' = r.h
         /\ freed' = IF r.freed THEN [freed EXCEPT !.store = @ + 1] ELSE freed
         /\ IF r.panic
            THEN /\ out' = Append(out, NilDereference)
                 /\ ProcessExit(2)
            ELSE UNCHANGED <<out, pc, exitCode, state, visited, gpc, quit, req>>
    /\ UNCHANGED <<inits, defers, logger, rdb, logLevel>>
    /\ UNCHANGED <<lst, inShutdown, clock, ctxErr, acceptedIn>>

\* redis.Close() called on its own
CallRedisClose ==
    /\ Alive /\ Calls < MaxCalls
    /\ released' = Append(released, "cache")
    /\ LET r == RedisClose(rdb) IN
         /\ rdb' = r.h
         /\ freed' = IF r.freed THEN [freed EXCEPT !.cache = @ + 1] ELSE freed
         /\ IF r.panic
            THEN /\ out' = Append(out, NilDereference)
                 /\ ProcessExit(2)
            ELSE UNCHANGED <<out, pc, exitCode, state, visited, gpc, quit, req>>
    /\ UNCHANGED <<inits, defers, logger, db, logLevel>>
    /\ UNCHANGED <<lst, inShutdown, clock, ctxErr, acceptedIn>>

\* ---------------------------------------------------------- specification
Next ==
    \/ SettingsInit
    \/ LoggerInit
    \/ MysqlInit
    \/ RedisInit
    \/ RoutesSetup
    \/ StartServe
    \/ Signal
    \/ ReceiveQuit
    \/ CallShutdown
    \/ Tick
    \/ ShutdownReturns
    \/ ShutdownFails
    \/ RunDeferred
    \/ Exit
    \/ ListenAndServe
    \/ ServeReturns
    \/ ListenerExit
    \/ Accept
    \/ Handler
    \/ GinRecovery
    \/ GinLogger

Spec == Init /\ [][Next]_vars

\* the two packages under any sequence of at most MaxCalls calls
HandleNext ==
    \/ CallMysqlInit
    \/ CallRedisInit
    \/ CallMysqlClose
    \/ CallRedisClose

HandleSpec == Init /\ [][HandleNext]_vars

\* GinRecovery and GinLogger on one request of a serving process whose
\* handler has panicked with any of FaultValues
ClassifyInit ==
    /\ pc = "wait"
    /\ state = "Serving"
    /\ visited = <<"Initializing", "Serving">>
    /\ exitCode = -1
    /\ inits = <<"settings", "logger", "mysql", "redis", "routes">>
    /\ defers = <<"Sync", "mysql.Close", "redis.Close">>
    /\ logger = "installed"
    /\ db = "open"
    /\ rdb = "open"
    /\ released = <<>>
    /\ freed = [store |-> 0, cache |-> 0]
    /\ logLevel \in {l \in LogLevels : UnmarshalText(l)}
    /\ out = <<"logger initialized successfully">>
    /\ quit = <<>>
    /\ gpc = "serving"
    /\ lst = "open"
    /\ inShutdown = FALSE
    /\ clock = 0
    /\ ctxErr = FALSE
    /\ acceptedIn = {"Serving"}
    /\ \E s \in HandlerStatuses, w \in BOOLEAN, f \in FaultValues :
         req = SetToBag({HandlerResult(NewContext, s, w, f)})

ClassifyNext ==
    \/ GinRecovery
    \/ GinLogger

ClassifySpec == ClassifyInit /\ [][ClassifyNext]_vars

\* The foreground path keeps running once the signal is received: main is a
\* runnable goroutine whenever one of its steps is enabled, and time passes
\* while Shutdown waits.  Nothing is assumed of the handlers: a request may
\* never complete.
FairSpec ==
    /\ Spec
    /\ WF_vars(CallShutdown)
    /\ WF_vars(Tick)
    /\ WF_vars(ShutdownReturns)
    /\ WF_vars(ShutdownFails)
    /\ WF_vars(RunDeferred)
    /\ WF_vars(Exit)

\* ------------------------------------------------------------- properties
Printed(msg) == \E i \in 1..Len(out) : out[i] = msg

Entered(st) == \E i \in 1..Len(visited) : visited[i] = st

\* a was released, and b after it
ReleasedBefore(a, b) ==
    \E i, j \in 1..Len(released) :
        i < j /\ released[i] = a /\ released[j] = b

\* the shutdown deadline passed with a request still in flight, and the
\* process ended on the foreground path
DeadlineExit == state = "Terminated" /\ ctxErr /\ ~Printed("listen:")

\* C1: when the shutdown deadline passes with a request still in flight,
\* the orchestrator logs the deadline-exceeded event, still releases the
\* cache and then the store, and reaches Terminated.
C1_DeadlineStillReleases ==
    DeadlineExit =>
        /\ Printed("Server Shutdown")
        /\ ReleasedBefore("cache", "store")

\* C2: after a termination signal whose drain completes within the deadline
\* the lifecycle is Serving -> Draining -> Terminated and every acquired
\* handle is released exactly once, cache first, then store, then the
\* logger flush.
C2_GracefulShutdownReleasesInReverse ==
    (exitCode = 0 /\ Entered("Serving")) =>
        /\ visited = <<"Initializing", "Serving", "Draining", "Terminated">>
        /\ ~ctxErr
        /\ released = <<"cache", "store", "logger">>
        /\ rdb = "closed"
        /\ db = "closed"

\* C2's case: requests were in flight while Shutdown waited, they all
\* completed before the deadline, and the process has ended cleanly.
C2_Witness ==
    /\ exitCode = 0
    /\ Entered("Draining")
    /\ clock > 0 /\ ~ctxErr
    /\ released = <<"cache", "store", "logger">>

InitOrder == <<"settings", "logger", "mysql", "redis", "routes">>

FailureMessage ==
    <<"init settings failed", "init logger failed", "init mysql failed",
      "init redis failed">>

\* C3: the initializers run in the fixed order settings, logger, mysql,
\* redis, routes; once one of them has failed its error is printed, no later
\* initializer runs and the listener is never started.
C3_StartupFailFast ==
    /\ inits = SubSeq(InitOrder, 1, Len(inits))
    /\ \A k \in 1..Len(FailureMessage) :
         Printed(FailureMessage[k]) =>
            /\ Len(inits) = k
            /\ gpc \in {"none", "exited"} /\ lst = "none"
            /\ ~Entered("Serving")
            /\ pc \in {"returning", "exited"}
    /\ (pc \in {"returning", "exited"} /\ ~Entered("Serving")) =>
            /\ Len(inits) <= Len(FailureMessage)
            /\ Printed(FailureMessage[Len(inits)])

\* C3's case: the cache client's init failed and the process has ended.
C3_Witness ==
    /\ Printed("init redis failed")
    /\ inits = <<"settings", "logger", "mysql", "redis">>
    /\ state = "Terminated"

\* startup was aborted by a failed initializer
StartupAborted == \E k \in 1..Len(FailureMessage) : Printed(FailureMessage[k])

\* C4 as claimed: a failed startup never releases what was initialized
\* before the failure; in particular the store handle stays unreleased when
\* the cache client's init fails.
C4_AbortReleasesNothing ==
    StartupAborted => /\ db # "closed"
                      /\ \A i \in 1..Len(released) : released[i] # "store"

\* C4 as amended: when an initializer fails main returns, so the releases
\* deferred so far run, last registered first: nothing after a settings or
\* logger failure, the logger flush after a store failure, the store close
\* and then the logger flush after a cache failure; the failed cache client
\* itself is not closed.
C4_AbortRunsDeferredReleases ==
    (StartupAborted /\ state = "Terminated") =>
        /\ defers = <<>>
        /\ released =
             CASE Printed("init redis failed") -> <<"store", "logger">>
               [] Printed("init mysql failed") -> <<"logger">>
               [] OTHER -> <<>>
        /\ Printed("init redis failed") => (db = "closed" /\ rdb = "unconnected")
        /\ Printed("init mysql failed") => db = "nil"

\* C4's case: the cache init failed after the store init succeeded, and the
\* store handle has been closed on the way out.
C4_Witness ==
    /\ Printed("init redis failed")
    /\ state = "Terminated"
    /\ db = "closed"
    /\ released = <<"store", "logger">>

\* the chain has finished with context c's fault (recovery ran)
Recovered(c) == c.fault # NoFault /\ c.phase \in {"logging", "done"}

NonBenign(c) == c.fault # NoFault /\ ~BrokenPipe(c.fault)

\* C5 as claimed: every non-benign fault ends with status 500 on the wire,
\* one error record from recovery, the chain aborted and the outcome
\* 5xx-abort, also when the handler had begun its response before faulting.
C5_FaultAlwaysAnswers500 ==
    \A c \in Contexts :
        (Recovered(c) /\ NonBenign(c)) =>
            /\ c.wire = StatusInternalServerError
            /\ c.errorLogs = 1
            /\ c.aborted
            /\ c.outcome = "5xx-abort"

\* C5 as amended: every non-benign fault ends with one error record from
\* recovery, the chain aborted and the outcome 5xx-abort; the client gets
\* status 500 when the handler had not begun its response, and keeps the
\* status the handler already sent when it had.
C5_FaultAnswers500UnlessWritten ==
    \A c \in Contexts :
        (Recovered(c) /\ NonBenign(c)) =>
            /\ c.wire = IF c.hwrote THEN c.hstatus ELSE StatusInternalServerError
            /\ c.written
            /\ c.errorLogs = 1
            /\ c.aborted
            /\ c.outcome = "5xx-abort"

\* C5's cases: one finished request whose handler faulted before writing and
\* got 500, another whose handler had sent 404 before faulting and kept it.
C5_Witness ==
    /\ \E c \in Contexts :
         /\ c.phase = "done" /\ NonBenign(c) /\ ~c.hwrote
         /\ c.wire = StatusInternalServerError /\ c.errorLogs = 1
    /\ \E c \in Contexts :
         /\ c.phase = "done" /\ NonBenign(c) /\ c.hwrote
         /\ c.wire = 404 /\ c.errorLogs = 1

\* C6: for a benign disconnect recovery emits exactly one error record,
\* appends the fault to the request's errors (so the telemetry record's
\* errors field is not empty), aborts the chain, and neither sets a status
\* nor writes the response.
C6_BenignDisconnectNoResponse ==
    \A c \in Contexts :
        (Recovered(c) /\ BrokenPipe(c.fault)) =>
            /\ c.errorLogs = 1
            /\ c.errors = 1
            /\ c.aborted
            /\ c.outcome = "benign-abort"
            /\ c.status = c.hstatus
            /\ c.phase = "logging" =>
                 /\ c.written = c.hwrote
                 /\ c.wire = IF c.hwrote THEN c.hstatus ELSE 0
            /\ c.phase = "done" => (c.telemetry = 1 /\ c.telErrors >= 1)

\* C6's case: a finished request whose handler panicked with a broken pipe
\* before writing anything.
C6_Witness ==
    \E c \in Contexts :
        /\ c.phase = "done" /\ c.fault = FaultBrokenPipe /\ ~c.hwrote
        /\ c.outcome = "benign-abort" /\ c.errorLogs = 1 /\ c.telErrors = 1

\* exactly one telemetry record per request, emitted when the chain is over
OneTelemetryRecord(c) ==
    c.telemetry = IF c.phase = "done" THEN 1 ELSE 0

\* C7 as claimed: every request gets exactly one telemetry record, emitted
\* after the handler and recovery, whose status is the handler's own when
\* there is no fault and 500 when recovery handled a non-benign fault.
C7_TelemetryStatus500OnFault ==
    \A c \in Contexts :
        /\ OneTelemetryRecord(c)
        /\ c.phase = "done" =>
             /\ c.fault = NoFault => c.telStatus = c.hstatus
             /\ NonBenign(c) => c.telStatus = StatusInternalServerError

\* C7 as amended: every request gets exactly one telemetry record, emitted
\* after the handler and recovery, whose status is the response writer's
\* final status: the handler's own when there is no fault, 500 when recovery
\* handled a non-benign fault raised before the handler began its response;
\* when the handler had begun it, the writer holds the handler's status or
\* 500.
C7_TelemetryReportsWriterStatus ==
    \A c \in Contexts :
        /\ OneTelemetryRecord(c)
        /\ c.phase = "done" =>
             /\ c.telStatus = c.status
             /\ c.telErrors = c.errors
             /\ c.fault = NoFault => c.telStatus = c.hstatus
             /\ (NonBenign(c) /\ ~c.hwrote) =>
                    c.telStatus = StatusInternalServerError
             /\ (NonBenign(c) /\ c.hwrote) =>
                    c.telStatus \in {c.hstatus, StatusInternalServerError}

\* C7's case: a finished request whose handler set 404 and faulted before
\* writing, with its one record reporting 500.
C7_Witness ==
    \E c \in Contexts :
        /\ c.phase = "done" /\ NonBenign(c) /\ ~c.hwrote /\ c.hstatus = 404
        /\ c.telemetry = 1 /\ c.telStatus = StatusInternalServerError

\* a step in which GinRecovery handles the fault of context c
RecoveryStep(c) ==
    /\ c.phase = "panicking"
    /\ CopiesIn(c, req') < CopiesIn(c, req)
    /\ BagCardinality(req') = BagCardinality(req)

\* C8: no handler fault gets past the recovery middleware: every faulting
\* request ends in a benign-abort or a 5xx-abort, handling it changes neither
\* the process nor any other request, and every finished request has its
\* own telemetry record with its own status.
C8_FaultsContained ==
    /\ [](\A c \in Contexts :
            /\ c.outcome # "escaped"
            /\ Recovered(c) => c.outcome \in {"benign-abort", "5xx-abort"}
            /\ c.phase = "done" =>
                 /\ c.telemetry = 1
                 /\ c.telStatus = c.status
                 /\ c.fault = NoFault =>
                      /\ c.wire = c.hstatus /\ c.telStatus = c.hstatus
                      /\ c.errorLogs = 0 /\ ~c.aborted)
    /\ [][\A c \in Contexts :
            RecoveryStep(c) =>
                /\ UNCHANGED <<mainVars, srvVars>>
                /\ \A d \in Contexts :
                     d # c => CopiesIn(d, req') >= CopiesIn(d, req)]_vars

\* C8's case: the process is alive in Serving with its listener open after
\* one request ended in a 5xx-abort and another, fault-free, completed with
\* its own status and record.
C8_Witness ==
    /\ Alive /\ state = "Serving" /\ lst = "open"
    /\ \E c \in Contexts : c.phase = "done" /\ c.outcome = "5xx-abort"
    /\ \E c \in Contexts :
         /\ c.phase = "done" /\ c.fault = NoFault
         /\ c.wire = 404 /\ c.telemetry = 1 /\ c.telStatus = 404

\* C9 as claimed: connections are accepted only while the lifecycle state
\* is Serving.
C9_AcceptOnlyInServing == acceptedIn \subseteq {"Serving"}

\* C9 as amended: connections are accepted only from the open listener, in
\* Serving or, after the termination trigger, in Draining before Shutdown has
\* been issued to the listener; once Shutdown is issued none is accepted.
C9_AcceptOnlyBeforeShutdownIssued ==
    /\ [](acceptedIn \subseteq {"Serving", "Draining"})
    /\ [][BagCardinality(req') > BagCardinality(req) =>
            /\ ~inShutdown
            /\ lst = "open"
            /\ pc \in {"wait", "shutdown"}]_vars

\* C9's case: a connection was accepted in Draining, and Shutdown has since
\* been issued.
C9_Witness == "Draining" \in acceptedIn /\ inShutdown /\ lst = "closed"

\* C10: once Serving was reached, a release happens only after the drain
\* has completed, with no request in flight.
C10_ReleaseOnlyAfterDrain ==
    (Entered("Serving") /\ released # <<>>) =>
        /\ InFlight = {}
        /\ ~ctxErr
        /\ Printed("Server exiting")
        /\ pc \in {"returning", "exited"}

\* C10's case: requests were in flight while Shutdown waited, the drain has
\* completed and the cache handle has just been released.
C10_Witness ==
    /\ Alive /\ pc = "returning"
    /\ clock > 0
    /\ BagCardinality(req) = MaxRequests
    /\ released = <<"cache">>

\* C11: releasing is safe in every handle state: a Close call on a handle
\* that is already closed, or made when the acquisition failed or never ran
\* and there is no handle, does not panic, and the pool behind a handle is
\* never freed twice.
C11_ReleaseSafeInEveryHandleState ==
    /\ ~Printed(NilDereference)
    /\ exitCode # 2
    /\ freed.store <= 1 /\ freed.cache <= 1

\* the part of C11 that holds: a handle that was obtained can be closed any
\* number of times, and its pool is freed once
C11_SecondCloseIsSafe ==
    /\ freed.store <= 1 /\ freed.cache <= 1
    /\ Printed(NilDereference) => (db = "nil" \/ rdb = "nil")

\* position of a lifecycle state in Initializing, Serving, Draining,
\* Terminated
Rank(st) ==
    CASE st = "Initializing" -> 0
      [] st = "Serving" -> 1
      [] st = "Draining" -> 2
      [] st = "Terminated" -> 3

\* C12 as claimed: the lifecycle state only moves forward, and Serving is
\* left only by receiving SIGINT or SIGTERM, which leads to Draining; no
\* other event, a listener error included, ends Serving.
C12_OnlySignalEndsServing ==
    [][/\ state' # state => Rank(state') > Rank(state)
       /\ (state = "Serving" /\ state' # "Serving") =>
             /\ state' = "Draining"
             /\ Len(quit) > 0 /\ Head(quit) \in Signals]_vars

\* C12 as amended: the lifecycle state only moves forward, and Serving is
\* left in one of two ways: main receives SIGINT or SIGTERM from quit and
\* enters Draining, or the listener goroutine, holding an error other than
\* ErrServerClosed, logs it and exits the process with status 1, which takes
\* Serving straight to Terminated.
C12_SignalOrListenErrorEndsServing ==
    [][/\ state' # state => Rank(state') > Rank(state)
       /\ (state = "Serving" /\ state' # "Serving") =>
             \/ /\ state' = "Draining"
                /\ Len(quit) > 0 /\ Head(quit) \in Signals
                /\ exitCode' = -1
             \/ /\ state' = "Terminated"
                /\ gpc = "err"
                /\ exitCode' = 1
                /\ out' = Append(out, "listen:")]_vars

\* C12's case: the listener failed while the process was Serving with no
\* signal received, and the process went from Serving to Terminated.
C12_Witness ==
    /\ visited = <<"Initializing", "Serving", "Terminated">>
    /\ Printed("listen:")
    /\ exitCode = 1

\* C13: the wait for in-flight requests is bounded: Shutdown never waits
\* past the 5 time units of its context, when they have passed with a
\* request still in flight the wait is over, and the process always leaves
\* Draining and ends, also when an in-flight request never completes.
C13_DrainWaitBounded ==
    /\ [](clock <= ShutdownTimeout)
    /\ []((pc = "shutdown_wait" /\ clock = ShutdownTimeout /\ InFlight # {})
            => (ctxErr /\ ~ENABLED Tick /\ ~ENABLED ShutdownReturns))
    /\ (state = "Draining") ~> (state = "Terminated")

\* C13's case: a request was still in flight when the deadline passed, and
\* the process has left Draining.
C13_Witness ==
    /\ state = "Terminated"
    /\ Entered("Draining")
    /\ clock = ShutdownTimeout /\ ctxErr
    /\ Printed("Server Shutdown")

\* C14: what the listener goroutine does with ListenAndServe's return: once
\* Shutdown was issued, also before the listener was bound, the return is
\* ErrServerClosed, never a failure; ErrServerClosed is never logged as
\* fatal and leaves the process running; a bind or serve failure is logged
\* with "listen:" and the process exits with status 1; "listen:" is logged
\* for nothing else; and the listener is never started again.
C14_ListenerFatalIffNotServerClosed ==
    /\ [](gpc = "ErrServerClosed" => inShutdown)
    /\ [][/\ (gpc \in {"start", "serving"} /\ inShutdown /\ gpc' # gpc) =>
                gpc' \in {"ErrServerClosed", "exited"}
          /\ (gpc = "ErrServerClosed" /\ gpc' # gpc) =>
                \/ gpc' = "done" /\ exitCode' = -1 /\ out' = out
                \/ gpc' = "exited" /\ pc \in {"returning", "shutdown_wait"}
                                  /\ out' # Append(out, "listen:")
          /\ (gpc = "err" /\ gpc' # gpc) => gpc' = "exited"
          /\ out' = Append(out, "listen:") =>
                (gpc = "err" /\ exitCode' = 1 /\ state' = "Terminated")
          /\ gpc \in {"err", "ErrServerClosed", "done", "exited"} =>
                (gpc' \notin {"start", "serving"} /\ lst' # "open")]_vars

\* C14's case: Shutdown was issued before the listener goroutine had bound
\* its address, ListenAndServe returned ErrServerClosed, and the goroutine
\* ended without ending the process.
C14_Witness ==
    /\ Alive
    /\ gpc = "done"
    /\ lst = "none"
    /\ inShutdown

\* the other case of C14: a serve failure after the listener was bound has
\* ended the process with the fatal record
C14_WitnessServeFailure ==
    /\ Printed("listen:") /\ exitCode = 1
    /\ lst = "closed" /\ ~inShutdown

\* the texts of FaultTexts that contain "broken pipe" or "connection reset
\* by peer" in some mix of cases
BenignTexts ==
    {BrokenPipeText, <<"B","r","o","k","e","n"," ","p","i","p","e">>,
     ConnResetText,
     <<"C","O","N","N","E","C","T","I","O","N"," ","R","E","S","E","T",
       " ","B","Y"," ","P","E","E","R">>}

\* a network operation error wrapping a system-call error with such a text
BenignDisconnect(f) ==
    f.type = "OpError" /\ f.inner = "SyscallError" /\ f.msg \in BenignTexts

\* C15: recovery treats a fault as a benign disconnect (error recorded, chain
\* aborted, no status set) if and only if it is a network operation error
\* wrapping a system-call error whose message contains "broken pipe" or
\* "connection reset by peer" in any mix of cases; every other value is
\* handled as a non-benign fault (500, chain aborted).
C15_BenignIffBrokenConnection ==
    \A c \in Contexts :
        /\ c.outcome # "escaped"
        /\ Recovered(c) =>
             /\ c.errorLogs = 1 /\ c.aborted
             /\ IF BenignDisconnect(c.fault)
                THEN /\ c.outcome = "benign-abort"
                     /\ c.errors = 1
                     /\ c.status = c.hstatus
                ELSE /\ c.outcome = "5xx-abort"
                     /\ c.errors = 0
                     /\ c.written
                     /\ ~c.hwrote => c.wire = StatusInternalServerError

\* C15's case: recovery has handled "read: CONNECTION RESET BY PEER" inside
\* a network operation error as a benign disconnect.
C15_Witness ==
    \E c \in Contexts :
        /\ c.phase = "done"
        /\ c.fault.type = "OpError" /\ c.fault.inner = "SyscallError"
        /\ c.fault.syscall = <<"r","e","a","d">>
        /\ c.fault.msg = ToUpper(ConnResetText)
        /\ c.outcome = "benign-abort"

\* the other side of C15: the same text inside a network operation error
\* that wraps another kind of error was handled as a non-benign fault
C15_WitnessNonBenign ==
    \E c \in Contexts :
        /\ c.phase = "done"
        /\ c.fault.type = "OpError" /\ c.fault.inner = "errorString"
        /\ c.fault.msg = BrokenPipeText
        /\ c.outcome = "5xx-abort" /\ c.wire = StatusInternalServerError

\* the values of LogLevels that name no severity level
UnparseableLevels == {<<"i","n","f">>, <<"v","e","r","b","o","s","e">>}

\* logger.Init has been called
LoggerInitCalled == Len(inits) >= 2

\* C16: when log.level names no severity level, logger.Init returns an error
\* and leaves the global logger as it was (the no-op logger; nothing is
\* deferred for it), main prints the failure and returns, and neither the
\* store client, nor the cache client, nor the listener is started; with a
\* level that parses the logger is installed.
C16_BadLevelKeepsSinkAndAborts ==
    LoggerInitCalled =>
        IF logLevel \in UnparseableLevels
        THEN /\ Printed("init logger failed")
             /\ logger = "noop"
             /\ inits = <<"settings", "logger">>
             /\ defers = <<>> /\ released = <<>>
             /\ db = "nil" /\ rdb = "nil"
             /\ gpc \in {"none", "exited"} /\ lst = "none"
             /\ ~Entered("Serving")
             /\ pc \in {"returning", "exited"}
        ELSE /\ ~Printed("init logger failed")
             /\ logger = "installed"

\* C16's case: log.level was "verbose", logger.Init failed and the process
\* has ended with the no-op logger still in place.
C16_Witness ==
    /\ logLevel = <<"v","e","r","b","o","s","e">>
    /\ Printed("init logger failed")
    /\ logger = "noop"
    /\ state = "Terminated" /\ exitCode = 0

\* C17: a listener failure reported after Serving was entered ends the
\* process from the listener goroutine with status 1, whether or not a
\* signal has arrived, and that exit runs none of main's deferred calls:
\* when no signal was received before, the cache and store handles are still
\* open, nothing was released or flushed, and the three deferred calls are
\* still registered.
C17_ListenFailureExitsWithoutRelease ==
    /\ []((Printed("listen:") /\ ~Entered("Draining")) =>
            /\ exitCode = 1
            /\ visited = <<"Initializing", "Serving", "Terminated">>
            /\ db = "open" /\ rdb = "open"
            /\ released = <<>>
            /\ freed = [store |-> 0, cache |-> 0]
            /\ defers = <<"Sync", "mysql.Close", "redis.Close">>)
    /\ [][out' = Append(out, "listen:") =>
            /\ Entered("Serving")
            /\ exitCode' = 1 /\ state' = "Terminated"
            /\ UNCHANGED <<defers, released, freed, db, rdb, logger>>]_vars

\* C17's case: the listener failed during Serving with no signal received,
\* and the process has ended with both handles open and nothing released.
C17_Witness ==
    /\ Printed("listen:")
    /\ state = "Terminated" /\ ~Entered("Draining")
    /\ db = "open" /\ rdb = "open"
    /\ released = <<>>
    /\ Len(defers) = 3

====
